---- MODULE Spec2Model ----
(***************************************************************************)
(* Cartesian Merkle Tree (rajiknows/cmt): the treap engine of cmt-core     *)
(* (insert via split, remove via heapify-to-leaf, rotations, lookup) and   *)
(* the proof generation and verification of cmt-concurrent, whose tree     *)
(* code is that of cmt-core behind an RwLock (rayon::join there only reads *)
(* the two child hashes side by side).  The concurrent engine's tree code  *)
(* is also modelled on its own (conc_...), to compare the two engines and  *)
(* to run its calls from several threads, one lock step at a time.         *)
(*                                                                         *)
(* Representation.                                                         *)
(*   Option<T>        a sequence of length <= 1:  None = <<>>, Some(x) =   *)
(*                    <<x>>.                                               *)
(*   Box<TreeNode>    a record [key, priority, value, hash, left, right]   *)
(*                    whose left/right are Option<Box<TreeNode>>.          *)
(*   Hash (Vec<u8>)   the empty vector is <<>>; a SHA-256 digest is the    *)
(*                    term <<key, {h1, h2}>> of what was hashed.  Keys are *)
(*                    fixed-width and a child hash is 0 or 32 bytes long,  *)
(*                    so the hashed buffer  key ++ min(h1,h2) ++           *)
(*                    max(h1,h2) determines key and the unordered pair     *)
(*                    {h1, h2}; SHA-256 is taken to be collision-free.     *)
(*   Priority (i128)  find_priority is SHA-256 of the key; the model draws *)
(*                    the table key -> priority once, at Init, from every  *)
(*                    injective table, and never changes it.               *)
(***************************************************************************)
EXTENDS Integers, Sequences, FiniteSets, Bags, TLC

\* ------------------------------------------------------------------ bounds
NumKeys   == 3      \* keys are 1..NumKeys
NumValues == 2      \* values are 1..NumValues
MaxOps    == 5      \* calls made on the tree in one run
NumThreads == 2     \* threads calling into the concurrent engine
MaxCalls  == 3      \* calls the threads make on the concurrent engine in one run

Keys   == 1..NumKeys
Values == 1..NumValues

\* i128::MIN, the priority remove forces on the node it deletes.  Priorities
\* are only ever compared, so the 128-bit range is scaled to I128_MIN..NumKeys.
I128_MIN == 0

VARIABLES
    prio,       \* find_priority as a table: key -> priority
    root,       \* CartesianMerkleTree.root : Option<Box<TreeNode>>
    inserted,   \* the keys insert has been called with so far
    held,       \* Option<(key, Proof)>: the last generate_proof result, kept by the caller
    last,       \* the last call made and what it returned
    ops,        \* number of calls made
    twin,       \* the root of a second, independent tree (fed the same pairs in another order)
    pending,    \* the (key, value) pairs still to be inserted into each of the two trees
    slot,       \* the concurrent engine's root: the Option<Box<TreeNode>> inside the RwLock
    lock,       \* the RwLock: whether the write guard is held, how many read guards are held
    threads,    \* the calls the worker threads are inside, one per busy thread (a bag: the threads are interchangeable)
    serial      \* the tree of the serial execution: the calls applied whole, in the order they took the lock

vars == <<prio, root, inserted, held, last, ops, twin, pending, slot, lock, threads, serial>>

\* ------------------------------------------------------------ hash utility
None == <<>>
Some(x) == <<x>>

\* Vec::new(): the empty hash
EmptyHash == <<>>

\* calculate_merkle_hash: SHA-256 of key ++ the two child hashes in ascending order
calculate_merkle_hash(key, left_child_hash, right_child_hash) ==
    <<key, {left_child_hash, right_child_hash}>>

\* find_priority: the first 16 bytes of SHA-256(key) as an i128
find_priority(key) == prio[key]

\* opt.as_ref().map(|n| n.hash.clone()).unwrap_or_default()
hash_or_default(opt) == IF opt = None THEN EmptyHash ELSE opt[1].hash

\* TreeNode { key, priority, value, hash, left, right }
TreeNode(key, priority, value, hash, left, right) ==
    [key |-> key, priority |-> priority, value |-> value, hash |-> hash,
     left |-> left, right |-> right]

\* recompute a node's hash from its current children
rehash(n) ==
    [n EXCEPT !.hash = calculate_merkle_hash(n.key, hash_or_default(n.left),
                                             hash_or_default(n.right))]

\* ---------------------------------------------------------------- lookup
RECURSIVE contains_walk(_, _)
contains_walk(cur, key) ==
    IF cur = None THEN FALSE
    ELSE LET n == cur[1] IN
         IF n.key = key THEN TRUE
         ELSE IF key < n.key THEN contains_walk(n.left, key)
         ELSE contains_walk(n.right, key)

contains_key(tree, key) == contains_walk(tree, key)

\* ---------------------------------------------------------------- insert
\* split(node, key, left, right): left and right are the out-parameters; the
\* result is their final contents <<left, right>>.  node.clone() is a deep copy.
RECURSIVE split(_, _, _, _)
split(node, key, left, right) ==
    IF node.key < key
    THEN LET left2 == Some(node) IN
         IF node.right # None THEN split(node.right[1], key, left2, right)
         ELSE <<left2, right>>
    ELSE LET right2 == Some(node) IN
         IF node.left # None THEN split(node.left[1], key, left, right2)
         ELSE <<left, right2>>

RECURSIVE insert_recursive(_, _, _, _)

\* insert_recursive without the branch for an equal key: a key that is not
\* smaller than the node's goes to the right (else instead of else if key >).
insert_recursive_no_equal_branch(node, key, value, priority) ==
    IF node = None
    THEN Some(TreeNode(key, priority, value,
                       calculate_merkle_hash(key, EmptyHash, EmptyHash), None, None))
    ELSE LET current_node == node[1] IN
         IF priority > current_node.priority
         THEN LET parts == split(current_node, key, None, None)
                  new_node == TreeNode(key, priority, value,
                                       calculate_merkle_hash(key, EmptyHash, EmptyHash),
                                       parts[1], parts[2])
              IN Some(rehash(new_node))
         ELSE IF key < current_node.key
         THEN Some(rehash([current_node EXCEPT
                  !.left = insert_recursive(current_node.left, key, value, priority)]))
         ELSE Some(rehash([current_node EXCEPT
                  !.right = insert_recursive(current_node.right, key, value, priority)]))

insert_recursive(node, key, value, priority) ==
    IF node = None
    THEN Some(TreeNode(key, priority, value,
                       calculate_merkle_hash(key, EmptyHash, EmptyHash), None, None))
    ELSE LET current_node == node[1] IN
         IF priority > current_node.priority
         THEN LET parts == split(current_node, key, None, None)
                  new_node == TreeNode(key, priority, value,
                                       calculate_merkle_hash(key, EmptyHash, EmptyHash),
                                       parts[1], parts[2])
              IN Some(rehash(new_node))
         ELSE IF key < current_node.key
         THEN Some(rehash([current_node EXCEPT
                  !.left = insert_recursive(current_node.left, key, value, priority)]))
         ELSE IF key > current_node.key
         THEN Some(rehash([current_node EXCEPT
                  !.right = insert_recursive(current_node.right, key, value, priority)]))
         ELSE Some(rehash([current_node EXCEPT !.value = value]))

\* ---------------------------------------------------------------- remove
\* What a call yields when it aborts (expect/unwrap on None).
Panic == <<"panic", "panic">>

\* x.right.take().expect("rotate_left requires right child") finds no child
rotate_left_aborts(x) == x.right = None

\* y.left.take().expect("rotate_right requires left child") finds no child
rotate_right_aborts(y) == y.left = None

rotate_left(x) ==
    LET y  == x.right[1]
        x2 == rehash([x EXCEPT !.right = y.left])
    IN rehash([y EXCEPT !.left = Some(x2)])

rotate_right(y) ==
    LET x  == y.left[1]
        y2 == rehash([y EXCEPT !.left = x.right])
    IN rehash([x EXCEPT !.right = Some(y2)])

\* map_or(i128::MIN, |n| n.priority)
priority_or_min(opt) == IF opt = None THEN I128_MIN ELSE opt[1].priority

\* heapify(node): Option<Box<TreeNode>>, or Panic when a rotation aborts.
\* The node moved up keeps the hash the rotation gave it.
RECURSIVE heapify(_)

\* heapify choosing the wrong child: where the node has both children the one
\* of lower priority is rotated up (left_priority < right_priority).
heapify_lower_child_up(node) ==
    IF node.left = None /\ node.right = None THEN None
    ELSE LET left_priority  == priority_or_min(node.left)
             right_priority == priority_or_min(node.right)
         IN IF left_priority < right_priority /\ node.left # None
            THEN LET new_node == rotate_right(node)
                     sub == heapify(new_node.right[1])
                 IN IF sub = Panic THEN Panic
                    ELSE Some([new_node EXCEPT !.right = sub])
            ELSE IF rotate_left_aborts(node) THEN
                     LET new_node == rotate_right(node)
                         sub == heapify(new_node.right[1])
                     IN IF sub = Panic THEN Panic
                        ELSE Some([new_node EXCEPT !.right = sub])
                 ELSE LET new_node == rotate_left(node)
                          sub == heapify(new_node.left[1])
                      IN IF sub = Panic THEN Panic
                         ELSE Some([new_node EXCEPT !.left = sub])

heapify(node) ==
    IF node.left = None /\ node.right = None THEN None
    ELSE LET left_priority  == priority_or_min(node.left)
             right_priority == priority_or_min(node.right)
         IN IF left_priority > right_priority
            THEN IF rotate_right_aborts(node) THEN Panic
                 ELSE LET new_node == rotate_right(node)
                          sub == heapify(new_node.right[1])
                      IN IF sub = Panic THEN Panic
                         ELSE Some([new_node EXCEPT !.right = sub])
            ELSE IF rotate_left_aborts(node) THEN Panic
                 ELSE LET new_node == rotate_left(node)
                          sub == heapify(new_node.left[1])
                      IN IF sub = Panic THEN Panic
                         ELSE Some([new_node EXCEPT !.left = sub])

\* the nodes heapify is called with, the outermost call first, and whether
\* the last of these calls aborts in its rotation
RECURSIVE heapify_calls(_)
heapify_calls(node) ==
    IF node.left = None /\ node.right = None
    THEN [calls |-> <<node>>, aborts |-> FALSE]
    ELSE LET left_priority  == priority_or_min(node.left)
             right_priority == priority_or_min(node.right)
         IN IF left_priority > right_priority
            THEN IF rotate_right_aborts(node) THEN [calls |-> <<node>>, aborts |-> TRUE]
                 ELSE LET rest == heapify_calls(rotate_right(node).right[1])
                      IN [rest EXCEPT !.calls = <<node>> \o @]
            ELSE IF rotate_left_aborts(node) THEN [calls |-> <<node>>, aborts |-> TRUE]
                 ELSE LET rest == heapify_calls(rotate_left(node).left[1])
                      IN [rest EXCEPT !.calls = <<node>> \o @]

RECURSIVE remove_recursive(_, _)
remove_recursive(node, key) ==
    IF node = None THEN None
    ELSE LET current_node == node[1] IN
         IF key < current_node.key
         THEN LET sub == remove_recursive(current_node.left, key) IN
              IF sub = Panic THEN Panic
              ELSE Some(rehash([current_node EXCEPT !.left = sub]))
         ELSE IF key > current_node.key
         THEN LET sub == remove_recursive(current_node.right, key) IN
              IF sub = Panic THEN Panic
              ELSE Some(rehash([current_node EXCEPT !.right = sub]))
         ELSE heapify([current_node EXCEPT !.priority = I128_MIN])

\* ----------------------------------------------------------------- proofs
\* Proof { prefix, suffix, existence, nonexistence_key }
Proof(prefix, suffix, existence, nonexistence_key) ==
    [prefix |-> prefix, suffix |-> suffix, existence |-> existence,
     nonexistence_key |-> nonexistence_key]

\* The descent loop of generate_proof: the state of its locals when it ends.
RECURSIVE proof_walk(_, _, _)
proof_walk(cur, key, prefix) ==
    IF cur = None
    THEN [prefix |-> prefix, cur |-> cur, last |-> None, existence |-> FALSE]
    ELSE LET n == cur[1] IN
         IF n.key = key
         THEN [prefix |-> prefix, cur |-> cur, last |-> Some(n), existence |-> TRUE]
         ELSE LET prefix2 == Append(prefix, <<n.key, n.hash>>) IN
              IF key < n.key THEN proof_walk(n.left, key, prefix2)
              ELSE proof_walk(n.right, key, prefix2)

\* generate_proof naming the first node of the path as the witness
generate_proof_first_as_witness(tree, key) ==
    LET w == proof_walk(tree, key, <<>>) IN
    IF w.existence
    THEN Proof(w.prefix,
               <<hash_or_default(w.last[1].left), hash_or_default(w.last[1].right)>>,
               TRUE, None)
    ELSE Proof(w.prefix, <<EmptyHash, EmptyHash>>, FALSE,
               IF w.prefix = <<>> THEN None ELSE Some(w.prefix[1][1]))

generate_proof(tree, key) ==
    LET w == proof_walk(tree, key, <<>>) IN
    IF w.existence
    THEN Proof(w.prefix,
               <<hash_or_default(w.last[1].left), hash_or_default(w.last[1].right)>>,
               TRUE, None)
    ELSE LET witness == IF w.prefix = <<>> THEN None
                        ELSE Some(w.prefix[Len(w.prefix)][1])
             lr == IF w.cur # None
                   THEN <<hash_or_default(w.cur[1].left), hash_or_default(w.cur[1].right)>>
                   ELSE <<EmptyHash, EmptyHash>>
         IN Proof(w.prefix, lr, FALSE, witness)

\* for (k, mh) in proof.prefix { acc = calculate_merkle_hash(&k, &acc, &mh) }
RECURSIVE fold_prefix(_, _, _)
fold_prefix(prefix, i, acc) ==
    IF i > Len(prefix) THEN acc
    ELSE fold_prefix(prefix, i + 1,
                     calculate_merkle_hash(prefix[i][1], acc, prefix[i][2]))

\* verify_proof(proof, key, root_hash): "true", "false", or "panic" when
\* proof.nonexistence_key.unwrap() finds None.
verify_proof(proof, key, root_hash) ==
    IF ~proof.existence /\ proof.nonexistence_key = None THEN "panic"
    ELSE LET acc0 == IF proof.existence
                     THEN calculate_merkle_hash(key, proof.suffix[1], proof.suffix[2])
                     ELSE calculate_merkle_hash(proof.nonexistence_key[1],
                                                proof.suffix[1], proof.suffix[2])
             acc == fold_prefix(proof.prefix, 1, acc0)
         IN IF acc = root_hash THEN "true" ELSE "false"

\* ------------------------------------------------- the concurrent engine
\* cmt-concurrent's own hash utility and rotations (its mod utils), as the
\* design describes them: hash_node(key, left_hash, right_hash) hashes the key
\* with the two child hashes in ascending order
conc_calculate_merkle_hash(key, left_child_hash, right_child_hash) ==
    <<key, {left_child_hash, right_child_hash}>>

\* rayon::join of the two child-hash lookups, then calculate_merkle_hash
conc_rehash(n) ==
    [n EXCEPT !.hash = conc_calculate_merkle_hash(n.key, hash_or_default(n.left),
                                                  hash_or_default(n.right))]

\* rotate_left(x) fails when x has no right child
conc_rotate_left_aborts(x) == x.right = None

\* rotate_right(y) fails when y has no left child
conc_rotate_right_aborts(y) == y.left = None

\* rotate_left(x): y.left becomes x's right child, x becomes y's left child,
\* x's hash is recomputed, then y's
conc_rotate_left(x) ==
    LET y  == x.right[1]
        x2 == conc_rehash([x EXCEPT !.right = y.left])
    IN conc_rehash([y EXCEPT !.left = Some(x2)])

\* rotate_right(y): symmetric
conc_rotate_right(y) ==
    LET x  == y.left[1]
        y2 == conc_rehash([y EXCEPT !.left = x.right])
    IN conc_rehash([x EXCEPT !.right = Some(y2)])

RECURSIVE conc_contains_walk(_, _)
conc_contains_walk(cur, key) ==
    IF cur = None THEN FALSE
    ELSE LET n == cur[1] IN
         IF n.key = key THEN TRUE
         ELSE IF key < n.key THEN conc_contains_walk(n.left, key)
         ELSE conc_contains_walk(n.right, key)

\* contains_key on the value the read guard gives access to
conc_contains_key(tree, key) == conc_contains_walk(tree, key)

RECURSIVE conc_split(_, _, _, _)

\* split that leaves an out-parameter alone once it has been written
conc_split_first_wins(node, key, left, right) ==
    IF node.key < key
    THEN LET left2 == IF left = None THEN Some(node) ELSE left IN
         IF node.right # None THEN conc_split(node.right[1], key, left2, right)
         ELSE <<left2, right>>
    ELSE LET right2 == IF right = None THEN Some(node) ELSE right IN
         IF node.left # None THEN conc_split(node.left[1], key, left, right2)
         ELSE <<left, right2>>

conc_split(node, key, left, right) ==
    IF node.key < key
    THEN LET left2 == Some(node) IN
         IF node.right # None THEN conc_split(node.right[1], key, left2, right)
         ELSE <<left2, right>>
    ELSE LET right2 == Some(node) IN
         IF node.left # None THEN conc_split(node.left[1], key, left, right2)
         ELSE <<left, right2>>

RECURSIVE conc_insert_recursive(_, _, _, _)
conc_insert_recursive(node, key, value, priority) ==
    IF node = None
    THEN Some(TreeNode(key, priority, value,
                       conc_calculate_merkle_hash(key, EmptyHash, EmptyHash),
                       None, None))
    ELSE LET current_node == node[1] IN
         IF priority > current_node.priority
         THEN LET parts == conc_split(current_node, key, None, None)
                  new_node == TreeNode(key, priority, value,
                                       conc_calculate_merkle_hash(key, EmptyHash, EmptyHash),
                                       parts[1], parts[2])
              IN Some(conc_rehash(new_node))
         ELSE IF key < current_node.key
         THEN Some(conc_rehash([current_node EXCEPT
                  !.left = conc_insert_recursive(current_node.left, key, value, priority)]))
         ELSE IF key > current_node.key
         THEN Some(conc_rehash([current_node EXCEPT
                  !.right = conc_insert_recursive(current_node.right, key, value, priority)]))
         ELSE Some(conc_rehash([current_node EXCEPT !.value = value]))

RECURSIVE conc_heapify(_)
conc_heapify(node) ==
    IF node.left = None /\ node.right = None THEN None
    ELSE LET left_priority  == priority_or_min(node.left)
             right_priority == priority_or_min(node.right)
         IN IF left_priority > right_priority
            THEN IF conc_rotate_right_aborts(node) THEN Panic
                 ELSE LET new_node == conc_rotate_right(node)
                          sub == conc_heapify(new_node.right[1])
                      IN IF sub = Panic THEN Panic
                         ELSE Some([new_node EXCEPT !.right = sub])
            ELSE IF conc_rotate_left_aborts(node) THEN Panic
                 ELSE LET new_node == conc_rotate_left(node)
                          sub == conc_heapify(new_node.left[1])
                      IN IF sub = Panic THEN Panic
                         ELSE Some([new_node EXCEPT !.left = sub])

RECURSIVE conc_remove_recursive(_, _)
conc_remove_recursive(node, key) ==
    IF node = None THEN None
    ELSE LET current_node == node[1] IN
         IF key < current_node.key
         THEN LET sub == conc_remove_recursive(current_node.left, key) IN
              IF sub = Panic THEN Panic
              ELSE Some(conc_rehash([current_node EXCEPT !.left = sub]))
         ELSE IF key > current_node.key
         THEN LET sub == conc_remove_recursive(current_node.right, key) IN
              IF sub = Panic THEN Panic
              ELSE Some(conc_rehash([current_node EXCEPT !.right = sub]))
         ELSE conc_heapify([current_node EXCEPT !.priority = I128_MIN])

\* ------------------------------------- proof generation in cmt-core
\* The descent loop of cmt-core's generate_proof.
RECURSIVE core_proof_walk(_, _, _)
core_proof_walk(cur, key, prefix) ==
    IF cur = None
    THEN [prefix |-> prefix, cur |-> cur, last |-> None, existence |-> FALSE]
    ELSE LET n == cur[1] IN
         IF n.key = key
         THEN [prefix |-> prefix, cur |-> cur, last |-> Some(n), existence |-> TRUE]
         ELSE LET prefix2 == Append(prefix, <<n.key, n.hash>>) IN
              IF key < n.key THEN core_proof_walk(n.left, key, prefix2)
              ELSE core_proof_walk(n.right, key, prefix2)

core_generate_proof(tree, key) ==
    LET w == core_proof_walk(tree, key, <<>>) IN
    IF w.existence
    THEN Proof(w.prefix,
               <<hash_or_default(w.last[1].left), hash_or_default(w.last[1].right)>>,
               TRUE, None)
    ELSE LET witness == IF w.prefix = <<>> THEN None
                        ELSE Some(w.prefix[Len(w.prefix)][1])
             lr == IF w.cur # None
                   THEN <<hash_or_default(w.cur[1].left), hash_or_default(w.cur[1].right)>>
                   ELSE <<EmptyHash, EmptyHash>>
         IN Proof(w.prefix, lr, FALSE, witness)

\* ---------------------------------------------------------- state machine
\* every table a collision-free find_priority can be on Keys
PriorityTables ==
    {f \in [Keys -> (I128_MIN + 1)..(I128_MIN + NumKeys)] :
        \A a, b \in Keys : a # b => f[a] # f[b]}

NoCall == [op |-> "new", key |-> 0, value |-> 0, result |-> "unit", again |-> FALSE]

\* the record of a call: what was called with which arguments, what it
\* returned, and whether it repeats the call made just before it
Call(op, key, value, result) ==
    [op |-> op, key |-> key, value |-> value, result |-> result,
     again |-> (last.op = op /\ last.key = key /\ last.value = value)]

NothingPending == [first |-> {}, twin |-> {}]

\* RwLock::new(..): no guard is held
Unlocked == [writer |-> FALSE, readers |-> 0]

\* CartesianMerkleTree::new()
Init ==
    /\ prio \in PriorityTables
    /\ root = None
    /\ inserted = {}
    /\ held = None
    /\ last = NoCall
    /\ ops = 0
    /\ twin = None
    /\ pending = NothingPending
    /\ slot = None
    /\ lock = Unlocked
    /\ threads = EmptyBag
    /\ serial = None

\* insert(key, value)
Insert(key, value) ==
    /\ ops < MaxOps
    /\ root' = insert_recursive(root, key, value, find_priority(key))
    /\ inserted' = inserted \cup {key}
    /\ last' = Call("insert", key, value, "unit")
    /\ ops' = ops + 1
    /\ UNCHANGED <<prio, held, twin, pending, slot, lock, threads, serial>>

\* remove(key): root.take() empties the slot before remove_recursive runs, so
\* an abort leaves the tree empty.
Remove(key) ==
    /\ ops < MaxOps
    /\ LET r == remove_recursive(root, key) IN
       /\ root' = IF r = Panic THEN None ELSE r
       /\ last' = Call("remove", key, 0,
                   IF r = Panic THEN "panic" ELSE "unit")
    /\ ops' = ops + 1
    /\ UNCHANGED <<prio, inserted, held, twin, pending, slot, lock, threads, serial>>

\* contains_key(key)
ContainsKey(key) ==
    /\ ops < MaxOps
    /\ last' = Call("contains_key", key, 0,
                IF contains_key(root, key) THEN "true" ELSE "false")
    /\ ops' = ops + 1
    /\ UNCHANGED <<prio, root, inserted, held, twin, pending, slot, lock, threads, serial>>

\* generate_proof(key): the caller keeps the proof it is given
GenerateProof(key) ==
    /\ ops < MaxOps
    /\ held' = Some([key |-> key, proof |-> generate_proof(root, key)])
    /\ last' = Call("generate_proof", key, 0, "proof")
    /\ ops' = ops + 1
    /\ UNCHANGED <<prio, root, inserted, twin, pending, slot, lock, threads, serial>>

\* verify_proof(proof, key, root_hash) on the kept proof and the current root
\* hash: the hash field of the root node, the empty vector for an empty tree
VerifyProof ==
    /\ ops < MaxOps
    /\ held # None
    /\ last' = Call("verify_proof", held[1].key, 0,
                verify_proof(held[1].proof, held[1].key, hash_or_default(root)))
    /\ ops' = ops + 1
    /\ UNCHANGED <<prio, root, inserted, held, twin, pending, slot, lock, threads, serial>>

Next ==
    \/ \E key \in Keys, value \in Values : Insert(key, value)
    \/ \E key \in Keys : Remove(key)
    \/ \E key \in Keys : ContainsKey(key)
    \/ \E key \in Keys : GenerateProof(key)
    \/ VerifyProof

Spec == Init /\ [][Next]_vars

\* the tree states: what insert and remove alone make of the tree (the other
\* calls leave root as it is)
NextTree ==
    \/ \E key \in Keys, value \in Values : Insert(key, value)
    \/ \E key \in Keys : Remove(key)

SpecTree == Init /\ [][NextTree]_vars

\* ------------------------------------------- two trees, one set of pairs
\* every finite set of (key, value) pairs with distinct keys
PairSets ==
    UNION {{{<<k, f[k]>> : k \in K} : f \in [K -> Values]} : K \in SUBSET Keys}

\* two fresh trees and one set of pairs to insert into both
InitTwo ==
    /\ prio \in PriorityTables
    /\ root = None
    /\ twin = None
    /\ \E S \in PairSets : pending = [first |-> S, twin |-> S]
    /\ inserted = {}
    /\ held = None
    /\ last = NoCall
    /\ ops = 0
    /\ slot = None
    /\ lock = Unlocked
    /\ threads = EmptyBag
    /\ serial = None

\* insert(key, value) on the first tree, for a pair not yet inserted there
InsertFirst(pair) ==
    /\ pair \in pending.first
    /\ root' = insert_recursive(root, pair[1], pair[2], find_priority(pair[1]))
    /\ pending' = [pending EXCEPT !.first = @ \ {pair}]
    /\ inserted' = inserted \cup {pair[1]}
    /\ last' = Call("insert", pair[1], pair[2], "unit")
    /\ ops' = ops + 1
    /\ UNCHANGED <<prio, held, twin, slot, lock, threads, serial>>

\* insert(key, value) on the second tree, for a pair not yet inserted there
InsertTwin(pair) ==
    /\ pair \in pending.twin
    /\ twin' = insert_recursive(twin, pair[1], pair[2], find_priority(pair[1]))
    /\ pending' = [pending EXCEPT !.twin = @ \ {pair}]
    /\ UNCHANGED <<prio, root, inserted, held, last, ops, slot, lock, threads, serial>>

NextTwo ==
    \/ \E pair \in Keys \X Values : InsertFirst(pair)
    \/ \E pair \in Keys \X Values : InsertTwin(pair)

SpecTwo == InitTwo /\ [][NextTwo]_vars

\* ------------------------- priorities over the whole range of i128
\* every table a collision-free find_priority can be when a key may also
\* derive i128::MIN itself
AnyPriorityTables ==
    {f \in [Keys -> I128_MIN..(I128_MIN + NumKeys)] :
        \A a, b \in Keys : a # b => f[a] # f[b]}

\* CartesianMerkleTree::new(), find_priority being any such table
InitAny ==
    /\ prio \in AnyPriorityTables
    /\ root = None
    /\ inserted = {}
    /\ held = None
    /\ last = NoCall
    /\ ops = 0
    /\ twin = None
    /\ pending = NothingPending
    /\ slot = None
    /\ lock = Unlocked
    /\ threads = EmptyBag
    /\ serial = None

SpecAny == InitAny /\ [][NextTree]_vars

\* --------------------- two runs of one sequence, differing in the values
\* insert(key, value) in the first run, insert(key, other) in the second
InsertPair(key, value, other) ==
    /\ ops < MaxOps
    /\ root' = insert_recursive(root, key, value, find_priority(key))
    /\ twin' = insert_recursive(twin, key, other, find_priority(key))
    /\ inserted' = inserted \cup {key}
    /\ last' = Call("insert", key, value, "unit")
    /\ ops' = ops + 1
    /\ UNCHANGED <<prio, held, pending, slot, lock, threads, serial>>

\* remove(key) in both runs
RemovePair(key) ==
    /\ ops < MaxOps
    /\ LET r == remove_recursive(root, key)
           w == remove_recursive(twin, key)
       IN /\ root' = IF r = Panic THEN None ELSE r
          /\ twin' = IF w = Panic THEN None ELSE w
          /\ last' = Call("remove", key, 0, IF r = Panic THEN "panic" ELSE "unit")
    /\ ops' = ops + 1
    /\ UNCHANGED <<prio, inserted, held, pending, slot, lock, threads, serial>>

NextValues ==
    \/ \E key \in Keys, value \in Values, other \in Values : InsertPair(key, value, other)
    \/ \E key \in Keys : RemovePair(key)

SpecValues == Init /\ [][NextValues]_vars

\* ------------------------------ both engines, one sequence of calls
\* insert(key, value) on the single-threaded tree and on the concurrent one
InsertBoth(key, value) ==
    /\ ops < MaxOps
    /\ root' = insert_recursive(root, key, value, find_priority(key))
    /\ slot' = conc_insert_recursive(slot, key, value, find_priority(key))
    /\ inserted' = inserted \cup {key}
    /\ last' = Call("insert", key, value, "unit")
    /\ ops' = ops + 1
    /\ UNCHANGED <<prio, held, twin, pending, lock, threads, serial>>

\* remove(key) on both trees; root.take() has emptied the slot of an engine
\* whose remove aborts
RemoveBoth(key) ==
    /\ ops < MaxOps
    /\ LET r == remove_recursive(root, key)
           c == conc_remove_recursive(slot, key)
       IN /\ root' = IF r = Panic THEN None ELSE r
          /\ slot' = IF c = Panic THEN None ELSE c
          /\ last' = Call("remove", key, 0, IF r = Panic THEN "panic" ELSE "unit")
    /\ ops' = ops + 1
    /\ UNCHANGED <<prio, inserted, held, twin, pending, lock, threads, serial>>

NextBoth ==
    \/ \E key \in Keys, value \in Values : InsertBoth(key, value)
    \/ \E key \in Keys : RemoveBoth(key)

SpecBoth == Init /\ [][NextBoth]_vars

\* ---------------------------------- threads calling the concurrent engine
\* self.root.write() returns when no guard is held: the writer alone
can_write_beside_writer(l) == l.readers = 0

can_write(l) == ~l.writer /\ l.readers = 0

\* self.root.read() returns when no write guard is held
can_read_beside_writer(l) == TRUE

can_read(l) == ~l.writer

\* a call a thread is inside: its arguments, how far it has got, the tree it
\* took out of the slot, the value it is about to return, and the value the
\* serial execution returns for it
InCall(pc, op, key, value, local, result, expect) ==
    [pc |-> pc, op |-> op, key |-> key, value |-> value, local |-> local,
     result |-> result, expect |-> expect]

\* the calls in flight when call c has moved on to c2
Moved(c, c2) == (threads (-) SetToBag({c})) (+) SetToBag({c2})

\* what a call returns: nothing yet, (), an abort, a bool or a Proof
Returns(ret, found, proof) == [ret |-> ret, found |-> found, proof |-> proof]

NotYet == Returns("none", FALSE, None)

\* the outcome of a writing call whose rebuild gave r
WriteResult(r) == Returns(IF r = Panic THEN "panic" ELSE "unit", FALSE, None)

\* what a writing call makes of the tree it took out of the slot
Rebuilt(op, tree, key, value) ==
    IF op = "insert" THEN conc_insert_recursive(tree, key, value, find_priority(key))
    ELSE conc_remove_recursive(tree, key)

\* what a reading call returns for the tree it sees
ReadResult(op, tree, key) ==
    IF op = "contains_key" THEN Returns("bool", conc_contains_key(tree, key), None)
    ELSE Returns("proof", FALSE, Some(generate_proof(tree, key)))

\* a free thread calls insert / remove and gets as far as
\* `let mut root = self.root.write()`.  The serial execution performs the
\* whole call here.
WriteLock(op, key, value) ==
    /\ ops < MaxCalls
    /\ BagCardinality(threads) < NumThreads
    /\ can_write(lock)
    /\ lock' = [lock EXCEPT !.writer = TRUE]
    /\ LET s == Rebuilt(op, serial, key, value) IN
       /\ serial' = IF s = Panic THEN None ELSE s
       /\ threads' = threads (+) SetToBag({InCall("locked", op, key, value, None, NotYet,
                                                   WriteResult(s))})
    /\ ops' = ops + 1
    /\ UNCHANGED <<prio, root, inserted, held, last, twin, pending, slot>>

\* root.take(): the tree moves out of the slot into the call
Take(c) ==
    /\ c.pc = "locked"
    /\ threads' = Moved(c, [c EXCEPT !.pc = "taken", !.local = slot])
    /\ slot' = None
    /\ UNCHANGED <<prio, root, inserted, held, last, ops, twin, pending, lock, serial>>

\* *root = insert_recursive(..) / remove_recursive(..): the rebuilt tree is
\* written back; an abort unwinds with the slot still empty
Store(c) ==
    /\ c.pc = "taken"
    /\ LET r == Rebuilt(c.op, c.local, c.key, c.value) IN
       /\ slot' = IF r = Panic THEN slot ELSE r
       /\ threads' = Moved(c, [c EXCEPT !.pc = "stored", !.local = None,
                                        !.result = WriteResult(r)])
    /\ UNCHANGED <<prio, root, inserted, held, last, ops, twin, pending, lock, serial>>

\* the write guard is dropped as the call returns or unwinds
WriteUnlock(c) ==
    /\ c.pc = "stored"
    /\ lock' = [lock EXCEPT !.writer = FALSE]
    /\ threads' = threads (-) SetToBag({c})
    /\ UNCHANGED <<prio, root, inserted, held, last, ops, twin, pending, slot, serial>>

\* a free thread calls contains_key / generate_proof and gets as far as
\* `self.root.read()`.  The serial execution performs the whole call here.
ReadLock(op, key) ==
    /\ ops < MaxCalls
    /\ BagCardinality(threads) < NumThreads
    /\ can_read(lock)
    /\ lock' = [lock EXCEPT !.readers = @ + 1]
    /\ threads' = threads (+) SetToBag({InCall("reading", op, key, 0, None, NotYet,
                                               ReadResult(op, serial, key))})
    /\ ops' = ops + 1
    /\ UNCHANGED <<prio, root, inserted, held, last, twin, pending, slot, serial>>

\* the descent from the root the guard gives access to
Walk(c) ==
    /\ c.pc = "reading"
    /\ threads' = Moved(c, [c EXCEPT !.pc = "walked",
                                     !.result = ReadResult(c.op, slot, c.key)])
    /\ UNCHANGED <<prio, root, inserted, held, last, ops, twin, pending, slot, lock, serial>>

\* the read guard is dropped as the call returns
ReadUnlock(c) ==
    /\ c.pc = "walked"
    /\ lock' = [lock EXCEPT !.readers = @ - 1]
    /\ threads' = threads (-) SetToBag({c})
    /\ UNCHANGED <<prio, root, inserted, held, last, ops, twin, pending, slot, serial>>

NextConc ==
    \/ \E key \in Keys, value \in Values : WriteLock("insert", key, value)
    \/ \E key \in Keys : WriteLock("remove", key, 0)
    \/ \E c \in BagToSet(threads) : Take(c)
    \/ \E c \in BagToSet(threads) : Store(c)
    \/ \E c \in BagToSet(threads) : WriteUnlock(c)
    \/ \E key \in Keys : ReadLock("contains_key", key)
    \/ \E key \in Keys : ReadLock("generate_proof", key)
    \/ \E c \in BagToSet(threads) : Walk(c)
    \/ \E c \in BagToSet(threads) : ReadUnlock(c)

SpecConc == Init /\ [][NextConc]_vars

\* the calls inside the critical section of insert or remove
Writing == {c \in BagToSet(threads) : c.pc \in {"locked", "taken", "stored"}}

\* the calls inside contains_key or generate_proof, holding a read guard
Reading == {c \in BagToSet(threads) : c.pc \in {"reading", "walked"}}

\* the calls that have produced the value they are about to return
Returning == {c \in BagToSet(threads) : c.pc \in {"stored", "walked"}}

\* ------------------------------------------------------- reading a tree
\* the nodes of a tree, each with the subtree it owns
RECURSIVE Nodes(_)
Nodes(tree) ==
    IF tree = None THEN {}
    ELSE {tree[1]} \cup Nodes(tree[1].left) \cup Nodes(tree[1].right)

KeysIn(tree) == {n.key : n \in Nodes(tree)}

\* the number of nodes a tree owns
RECURSIVE Size(_)
Size(tree) ==
    IF tree = None THEN 0
    ELSE 1 + Size(tree[1].left) + Size(tree[1].right)

\* the shape of a tree: which key sits where
RECURSIVE Shape(_)
Shape(tree) ==
    IF tree = None THEN None
    ELSE <<tree[1].key, Shape(tree[1].left), Shape(tree[1].right)>>

\* a tree without its values: every node's key, priority and hash, in place
RECURSIVE Unvalued(_)
Unvalued(tree) ==
    IF tree = None THEN None
    ELSE Some([key |-> tree[1].key, priority |-> tree[1].priority,
               hash |-> tree[1].hash,
               left |-> Unvalued(tree[1].left), right |-> Unvalued(tree[1].right)])

HashConsistent(n) ==
    n.hash = calculate_merkle_hash(n.key, hash_or_default(n.left), hash_or_default(n.right))

\* ------------------------------------------------------------------ claims

\* C1 (round-trip proof): in every reachable tree state, for every key that
\* was inserted and that contains_key finds, verify_proof accepts
\* generate_proof(key) against the current root hash, at any depth.
C1_RoundTripProof ==
    \A k \in inserted :
        contains_key(root, k) =>
            verify_proof(generate_proof(root, k), k, hash_or_default(root)) = "true"

\* C2 (determinism): once the same set of (key, value) pairs has been inserted
\* into two fresh trees, in whatever two orders, the trees have the same shape
\* and the same root hash.
C2_Determinism ==
    (pending.first = {} /\ pending.twin = {}) =>
        /\ Shape(root) = Shape(twin)
        /\ hash_or_default(root) = hash_or_default(twin)

\* C3 (hash invariant): after every insert and remove, every node's hash is
\* hash_node of its key and its children's hashes (empty for a missing child).
C3_HashInvariant == \A n \in Nodes(root) : HashConsistent(n)

\* C4 (BST ordering): in every reachable tree state every key of a node's
\* left subtree is smaller than the node's key and every key of its right
\* subtree is larger.
C4_BstOrdering ==
    \A n \in Nodes(root) :
        /\ \A k \in KeysIn(n.left)  : k < n.key
        /\ \A k \in KeysIn(n.right) : k > n.key

\* C5 (insert and lookup): after insert(k, v), contains_key(k) is true and
\* contains_key(j) is what it was before the insert for every other key j.
C5_InsertKeepsLookups ==
    [][last'.op = "insert" =>
          /\ contains_key(root', last'.key)
          /\ \A j \in Keys \ {last'.key} :
                 contains_key(root', j) = contains_key(root, j)]_vars

\* C6 (deletion correctness): immediately after remove(k) returns,
\* contains_key(k) is false.
C6_RemovedKeyNotFound ==
    (last.op = "remove" /\ last.result = "unit") => ~contains_key(root, last.key)

\* C7 (heap ordering): in every reachable tree state a node's priority is at
\* least the priority of each of its children.
C7_HeapOrdering ==
    \A n \in Nodes(root) :
        /\ n.left  # None => n.priority >= n.left[1].priority
        /\ n.right # None => n.priority >= n.right[1].priority

\* C7 witness: a remove of an inserted key has just run and left a tree in
\* which some node has two children.
C7_Witness ==
    /\ last.op = "remove"
    /\ last.key \in inserted
    /\ ~contains_key(root, last.key)
    /\ \E n \in Nodes(root) : n.left # None /\ n.right # None

\* C8 (non-membership soundness): in every reachable non-empty tree state,
\* for every key never inserted, generate_proof returns existence = false and
\* verify_proof accepts that proof against the current root hash.
C8_NonMembershipSound ==
    root # None =>
        \A k \in Keys \ inserted :
            /\ generate_proof(root, k).existence = FALSE
            /\ verify_proof(generate_proof(root, k), k, hash_or_default(root)) = "true"

\* C9 (a proof does not survive a change of membership of its key): an
\* existence proof for k generated before remove(k) is answered false against
\* the root hash after the removal, and a non-existence proof for k generated
\* before insert(k, v) is answered false against the root hash after the
\* insertion.
C9_ProofDiesWithMembership ==
    [][held # None =>
          /\ (last'.op = "remove" /\ last'.key = held[1].key /\ held[1].proof.existence)
                 => verify_proof(held[1].proof, held[1].key, hash_or_default(root')) = "false"
          /\ (last'.op = "insert" /\ last'.key = held[1].key /\ ~held[1].proof.existence)
                 => verify_proof(held[1].proof, held[1].key, hash_or_default(root')) = "false"]_vars

\* C9, read as "is never accepted" (an abort of verify_proof counts as a rejection)
C9_NeverAccepted ==
    [][held # None =>
          /\ (last'.op = "remove" /\ last'.key = held[1].key /\ held[1].proof.existence)
                 => verify_proof(held[1].proof, held[1].key, hash_or_default(root')) # "true"
          /\ (last'.op = "insert" /\ last'.key = held[1].key /\ ~held[1].proof.existence)
                 => verify_proof(held[1].proof, held[1].key, hash_or_default(root')) # "true"]_vars

\* C10 (verify_proof is total): verify_proof returns true or false for every
\* proof it is given; a proof with existence = false and no witness key is
\* answered false.
C10_VerifyNeverPanics ==
    last.op = "verify_proof" =>
        /\ last.result \in {"true", "false"}
        /\ (held[1].proof.existence = FALSE /\ held[1].proof.nonexistence_key = None)
               => last.result = "false"

\* C11 (empty-tree scenario): on an empty tree generate_proof(k) returns, for
\* any key k, existence = false, no witness key, an empty prefix and a suffix
\* of two empty placeholders, and verify_proof answers true for this proof
\* against the empty tree's root hash (the empty byte sequence).
C11_EmptyTreeProof ==
    root = None =>
        \A k \in Keys :
            LET p == generate_proof(root, k) IN
            /\ p.existence = FALSE
            /\ p.nonexistence_key = None
            /\ p.prefix = <<>>
            /\ p.suffix = <<EmptyHash, EmptyHash>>
            /\ (last.op = "verify_proof" /\ held[1].key = k /\ held[1].proof = p)
                   => last.result = "true"

\* C11, the half about generate_proof alone: the shape of the proof it returns
\* on an empty tree.
C11_EmptyTreeProofShape ==
    root = None =>
        \A k \in Keys :
            generate_proof(root, k) =
                Proof(<<>>, <<EmptyHash, EmptyHash>>, FALSE, None)

\* C15 (update idempotence): when the same (key, value) pair is inserted twice
\* in a row, the root hash after the second insert is the root hash after the
\* first.
C15_UpdateIdempotent ==
    [][(last'.op = "insert" /\ last'.again)
          => hash_or_default(root') = hash_or_default(root)]_vars

\* C15 witness: a pair has just been inserted for the second time in a row,
\* and it sits below the root of a tree that has a node with two children.
C15_Witness ==
    /\ last.op = "insert"
    /\ last.again
    /\ root # None
    /\ root[1].key # last.key
    /\ \E n \in Nodes(root) : n.left # None /\ n.right # None

\* C16 (remove of an absent key is a no-op): when remove(k) is called for a key
\* no node of the tree holds, the tree after the call is the tree before it:
\* same keys, same shape, same hash in every node, same root hash.
C16_RemoveAbsentIsNoOp ==
    [][(last'.op = "remove" /\ ops' = ops + 1 /\ last'.key \notin KeysIn(root))
          => root' = root]_vars

\* C16, for the keys and the shape alone (node hashes left aside)
C16_RemoveAbsentKeepsShape ==
    [][(last'.op = "remove" /\ ops' = ops + 1 /\ last'.key \notin KeysIn(root))
          => Shape(root') = Shape(root)]_vars

\* C17 (keys are unique): in every reachable tree state no key is held by more
\* than one node.
C17_KeysUnique == Size(root) = Cardinality(KeysIn(root))

\* a subtree as insert and remove are meant to keep it: search-tree order,
\* heap order, one node per key, every hash that of the node's children
ValidSubtree(tree) ==
    /\ \A n \in Nodes(tree) :
          /\ \A k \in KeysIn(n.left)  : k < n.key
          /\ \A k \in KeysIn(n.right) : k > n.key
          /\ n.left  # None => n.priority >= n.left[1].priority
          /\ n.right # None => n.priority >= n.right[1].priority
          /\ HashConsistent(n)
    /\ Size(tree) = Cardinality(KeysIn(tree))

\* C18 (split partitions the subtree): for a valid subtree S and a pivot key p
\* not in S, split(S, p) returns a left part holding exactly the keys of S
\* below p and a right part holding exactly the keys of S above p, no key lost
\* or duplicated, every node's hash consistent with its children.
C18_SplitPartitions ==
    (root # None /\ ValidSubtree(root)) =>
        \A p \in Keys \ KeysIn(root) :
            LET parts == split(root[1], p, None, None) IN
            /\ KeysIn(parts[1]) = {k \in KeysIn(root) : k < p}
            /\ KeysIn(parts[2]) = {k \in KeysIn(root) : k > p}
            /\ Size(parts[1]) + Size(parts[2]) = Size(root)
            /\ \A n \in Nodes(parts[1]) \cup Nodes(parts[2]) : HashConsistent(n)

\* C19 (verify_proof folds the prefix nearest-ancestor-first): for a proof
\* whose prefix generate_proof recorded in root-to-target order, the
\* accumulator verify_proof computes is the one obtained by consuming the
\* pairs from the node closest to the target up to the root, each step
\* acc = hash_node(ancestor_key, acc, ancestor_hash).
C19_FoldsNearestAncestorFirst ==
    (held # None /\ (held[1].proof.existence \/ held[1].proof.nonexistence_key # None)) =>
        LET p == held[1].proof
            n == Len(p.prefix)
            acc0 == IF p.existence
                    THEN calculate_merkle_hash(held[1].key, p.suffix[1], p.suffix[2])
                    ELSE calculate_merkle_hash(p.nonexistence_key[1],
                                               p.suffix[1], p.suffix[2])
            nearest[j \in 0..n] ==
                IF j = 0 THEN acc0
                ELSE calculate_merkle_hash(p.prefix[n - j + 1][1], nearest[j - 1],
                                           p.prefix[n - j + 1][2])
        IN fold_prefix(p.prefix, 1, acc0) = nearest[n]

\* the nodes a search for key visits, from the root down, the node holding key
\* included when there is one
RECURSIVE SearchPath(_, _)
SearchPath(cur, key) ==
    IF cur = None THEN <<>>
    ELSE IF cur[1].key = key THEN <<cur[1]>>
    ELSE <<cur[1]>> \o SearchPath(IF key < cur[1].key THEN cur[1].left
                                  ELSE cur[1].right, key)

C14_EnginesAgree ==
    /\ slot = root
    /\ \A k \in Keys :
          /\ conc_contains_key(slot, k) = contains_key(root, k)
          /\ generate_proof(slot, k) = core_generate_proof(root, k)

\* both engines have split a subtree on insert and rotated on remove
C14_Witness ==
    /\ last.op = "remove"
    /\ last.result = "unit"
    /\ last.key \in inserted
    /\ Size(slot) >= 2
    /\ Size(slot) = Size(root)

\* C12 (linearizability of the concurrent engine): for every interleaving of
\* the threads' insert, remove, contains_key and generate_proof calls, the
\* tree in the slot whenever no write is under way, and every value a call
\* returns, are those of the serial execution of the same calls in the order
\* they took the lock.
C12_Linearizable ==
    /\ Writing = {} => slot = serial
    /\ \A c \in Returning : c.result = c.expect

\* two threads read the slot side by side, after a writer has left a tree
\* there: a lookup that found its key and a generate_proof
C12_Witness ==
    /\ slot # None
    /\ \E c, d \in BagToSet(threads) :
          /\ c.pc = "walked"
          /\ c.op = "contains_key"
          /\ c.result.found
          /\ d.pc = "walked"
          /\ d.op = "generate_proof"

\* C13 (no reader sees a partially rebuilt tree): while an insert or remove is
\* between taking the root out of the slot and writing the rebuilt root back,
\* no contains_key or generate_proof holds the slot and no other insert or
\* remove is in progress; a reader overlaps only with readers.
C13_NoPartialTreeSeen ==
    /\ \A c \in BagToSet(threads) :
          c.pc = "taken" => BagCardinality(threads) = 1
    /\ Reading # {} => Writing = {}

\* a remove has taken a tree of two nodes out of the slot and not yet written
\* the rebuilt one back
C13_Witness ==
    \E c \in BagToSet(threads) :
        /\ c.pc = "taken"
        /\ c.op = "remove"
        /\ Size(c.local) >= 2
        /\ slot = None

\* C21 (heapify terminates): in every reachable tree state, for every present
\* key k, remove(k) makes finitely many rotations: every call of heapify but
\* the last rotates, the next call is on the same node, now with a strictly
\* smaller subtree below it, the last call finds it a leaf, and the tree
\* remove returns has lost exactly that node.
C21_HeapifyTerminates ==
    \A k \in Keys :
        contains_key(root, k) =>
            LET path   == SearchPath(root, k)
                target == [path[Len(path)] EXCEPT !.priority = I128_MIN]
                run    == heapify_calls(target)
                n      == Len(run.calls)
                after  == remove_recursive(root, k)
            IN /\ ~run.aborts
               /\ n <= Size(Some(target))
               /\ \A i \in 1..(n - 1) :
                     /\ run.calls[i + 1].key = k
                     /\ run.calls[i + 1].priority = I128_MIN
                     /\ Size(Some(run.calls[i + 1])) < Size(Some(run.calls[i]))
               /\ run.calls[n].left = None /\ run.calls[n].right = None
               /\ after # Panic
               /\ Size(after) = Size(root) - 1

\* C22 (rotation preconditions are never violated): in every reachable tree
\* state, whatever priorities the keys derive in the range of i128, remove
\* never calls rotate_left on a node without a right child nor rotate_right
\* on a node without a left child: no call of remove aborts.
C22_RemoveNeverAborts == last.op = "remove" => last.result # "panic"

\* C23 (insert followed by remove is a round trip): in any reachable tree
\* state where key k is absent, insert(k, v) followed immediately by
\* remove(k) leaves the same key set, the same tree shape and the same root
\* hash as before the insert.
C23_InsertRemoveRoundTrip ==
    \A k \in Keys \ KeysIn(root) :
        \A v \in Values :
            LET grown  == insert_recursive(root, k, v, find_priority(k))
                shrunk == remove_recursive(grown, k)
                back   == IF shrunk = Panic THEN None ELSE shrunk
            IN /\ KeysIn(back) = KeysIn(root)
               /\ Shape(back) = Shape(root)
               /\ hash_or_default(back) = hash_or_default(root)

\* C24 (the commitment does not depend on values), the two runs: after the
\* same sequence of insert and remove with different values passed to insert,
\* the two trees have equal node hashes, equal root hashes and equal
\* generate_proof results for every key.
C24_ValuesDoNotMatter ==
    /\ Unvalued(root) = Unvalued(twin)
    /\ hash_or_default(root) = hash_or_default(twin)
    /\ \A k \in Keys : generate_proof(root, k) = generate_proof(twin, k)

\* C24 (the commitment does not depend on values), the update: insert(k, v2)
\* on a tree holding (k, v1) changes no hash.
C24_UpdateChangesNoHash ==
    [][(last'.op = "insert" /\ ops' = ops + 1 /\ contains_key(root, last'.key))
          => Unvalued(root') = Unvalued(root)]_vars

\* the update changes no hash where every hash of the tree is that of the
\* node's children
C24_UpdateOfConsistentTree ==
    [][(/\ last'.op = "insert" /\ ops' = ops + 1 /\ contains_key(root, last'.key)
        /\ \A n \in Nodes(root) : HashConsistent(n))
          => Unvalued(root') = Unvalued(root)]_vars

====
